---- MODULE Spec2Model ----
(***************************************************************************)
(* Model of the watchers change-to-commit pipeline:                        *)
(*   - src/src/debouncer.rs : Debouncer (on_event, timer thread,           *)
(*     cancel_current_thread, Drop)                                        *)
(*   - src/src/git.rs       : handle_event, get_changed_files,             *)
(*     create_commit, push_commits                                         *)
(* The main thread (the watch loop) calls on_event and finally drops the   *)
(* debouncer.  Every on_event call spawns one timer thread; the timer      *)
(* thread that fires runs the callback, which is handle_event.  The user   *)
(* edits files of the watch directory at any moment.                       *)
(*   - src/src/watcher.rs, src/src/lib.rs, src/src/file_utils.rs : the     *)
(*     loop of watch_repo and its event filter (SpecWatch)                 *)
(*   - src/src/git.rs : the text built by get_commit_message (SpecMsg)     *)
(*   - src/src/git.rs : create_commit on its own (SpecCommit) and          *)
(*     push_commits with its callbacks (SpecPush)                          *)
(* SpecCreateModify is the pipeline where one new file is created and then *)
(* modified; SpecSubmodule is the pipeline in a repository that has a      *)
(* submodule; SpecQuiesce is the pipeline where the user stops changing    *)
(* files once a commit has been created.                                   *)
(***************************************************************************)
EXTENDS Integers, Sequences, FiniteSets, TLC

\* ---------------------------------------------------------------- bounds
MaxCalls == 2       \* on_event calls made by the watch loop
MaxFaults == 1      \* backend failures (status read, commit, open)

Timers == 1..MaxCalls          \* timer k is the thread spawned by call k
Paths == {"a"}
Absent == 0
Contents == 0..2               \* 0: no file, 1 and 2: two file contents

\* ---------------------------------------------------------------- state
VARIABLES
  mainpc,           \* position of the watch-loop thread
  mainOp,           \* "on_event" or "drop": the caller of cancel_current_thread
  calls,            \* number of on_event calls started
  pending_context,  \* Debouncer.pending_context: 0 is None, k is Some(context of call k)
  cancel_signal,    \* Debouncer.cancel_signal: index of the (Mutex<bool>, Condvar) pair
  current_thread,   \* Debouncer.current_thread: 0 is None, k is Some(handle of timer k)
  cancelled,        \* the bool inside each cancel_signal mutex
  sigLock,          \* sigLock[k]: timer k holds the mutex of its cancel_signal
  cbLock,           \* holder of the callback mutex (0: free)
  pendLock,         \* holder of the pending_context mutex (0: free)
  poisoned,         \* a timer thread panicked while holding the mutexes
  tpc,              \* position of each timer thread
  timed_out,        \* result.1.timed_out() of each timer's wait_timeout
  workdir,          \* files of the watch directory
  index,            \* the repository index
  commits,          \* the commit objects, commit i is commits[i]
  head,             \* the head reference: 0 is unborn, i is commits[i]
  remote_head,      \* the branch on the remote
  auto_push,        \* context.config.auto_push
  he_message,       \* handle_event: message
  fired,            \* history: one record per callback invocation
  rapid,            \* history: every call arrived before the previous timer expired
  spaced,           \* history: every call arrived after the previous timer expired
  cancelEarly,      \* history: timer was cancelled before its wait timed out
  faults,           \* number of backend failures so far
  wl_variant,       \* watch_repo: "bin" is watcher.rs (the binary), "lib" is lib.rs
  wl_pc,            \* watch_repo: "recv" in the loop, "returned" after Err(..) was returned
  wl_chan,          \* the mpsc channel of the notify watcher: "open" or "closed"
  wl_ev,            \* watch_repo: the event of the last loop iteration
  wl_last,          \* watch_repo: what the last loop iteration did
  wl_errs,          \* watch_repo: number of "watch error" lines printed
  msg_statuses,     \* get_commit_message: changed_files
  msg_text,         \* get_commit_message: the String returned
  msg_done,         \* get_commit_message has returned
  push_pc,          \* push_commits: "idle", "start", "resolved", "authed", "done"
  push_in,          \* push_commits: the repository, the remote and the server
  push_out,         \* push_commits: remote, refspec, credential, log lines, result
  cc_in,            \* create_commit: work tree, index, configuration, head
  cc_out,           \* create_commit: result, index written, commit created
  cc_done,          \* create_commit has returned
  sub_dirty,        \* submodules: the submodule's work tree has a non-empty status
  sub_since,        \* submodules: number of firings begun when it became dirty
  sub_commits       \* submodules: number of commits made inside the submodule

debVars == <<mainpc, mainOp, calls, pending_context, cancel_signal, current_thread,
             cancelled, sigLock, cbLock, pendLock, poisoned, tpc, timed_out>>
gitVars == <<workdir, index, commits, head, remote_head, auto_push, he_message>>
histVars == <<fired, rapid, spaced, cancelEarly, faults>>
watchVars == <<wl_variant, wl_pc, wl_chan, wl_ev, wl_last, wl_errs>>
msgVars == <<msg_statuses, msg_text, msg_done>>
pipeVars == <<debVars, gitVars, histVars>>
pushVars == <<push_pc, push_in, push_out>>
ccVars == <<cc_in, cc_out, cc_done>>
subVars == <<sub_dirty, sub_since, sub_commits>>
restVars == <<pushVars, ccVars, subVars>>
auxVars == <<watchVars, msgVars, restVars>>
vars == <<pipeVars, auxVars>>

\* ------------------------------------------------------- pure functions

\* Status flags of one path, index against working directory
\* (StatusShow::Workdir, include_untracked, no unmodified entries).
StatusOf(idx, wd, p) ==
  IF idx[p] = wd[p] THEN "CURRENT"
  ELSE IF idx[p] = Absent THEN "WT_NEW"
  ELSE IF wd[p] = Absent THEN "WT_DELETED"
  ELSE "WT_MODIFIED"

\* get_changed_files: the status entries, as a function on the changed paths.
get_changed_files(idx, wd) ==
  [p \in {q \in Paths : StatusOf(idx, wd, q) # "CURRENT"} |-> StatusOf(idx, wd, p)]

\* changed_files.is_empty()
is_emptyNever(st) == FALSE
is_empty(st) == DOMAIN st = {}

\* get_commit_message: the three filtered lists, in the order of `types`.
get_commit_message(st) ==
  [deleted  |-> {p \in DOMAIN st : st[p] = "WT_DELETED"},
   modified |-> {p \in DOMAIN st : st[p] = "WT_MODIFIED"},
   added    |-> {p \in DOMAIN st : st[p] = "WT_NEW"}]

NoMessage == [deleted |-> {}, modified |-> {}, added |-> {}]

\* index.add_all(["*"]) followed by index.write(): the index becomes the working tree.
add_allNoWrite(idx, wd) == idx
add_all(idx, wd) == wd

\* create_commit: the parents handed to repo.commit, from repo.head().
ParentsNone(h) == {}
Parents(h) == IF h = 0 THEN {} ELSE {h}

\* The condition under which the timer thread goes on to the callback.
ShouldFireIgnoringCancel(c, t) == t
ShouldFire(c, t) == (~c) /\ t

\* cancel_current_thread: *cancelled = true
SetCancelledNoop(c, k) == c
SetCancelled(c, k) == [c EXCEPT ![k] = TRUE]

\* Mutex::lock() returns only while no other thread holds the mutex.
CanLockAlways(held) == TRUE
CanLock(held) == ~held

\* context_guard.take(): the payload handed to the callback by timer t.
TakeCaptured(pc, t) == t
Take(pc, t) == pc

\* handle_event: if context.config.auto_push, after create_commit returned Ok.
ShouldPushAlways(ap) == TRUE
ShouldPush(ap) == ap

\* ------------------------------------------------------------- initial state
EmptyTree == [p \in Paths |-> Absent]
OldTree == [p \in Paths |-> 1]
OldCommit == [parents |-> {}, tree |-> OldTree, message |-> NoMessage, base |-> 0, by |-> "user"]

\* Debouncer::new, and a repository that is either freshly initialised (no head
\* commit) or has one commit made by the user; the working tree is clean.
InitPipeline ==
  /\ mainpc = "idle"
  /\ mainOp = "none"
  /\ calls = 0
  /\ pending_context = 0
  /\ cancel_signal = 0
  /\ current_thread = 0
  /\ cancelled = [k \in 0..MaxCalls |-> FALSE]
  /\ sigLock = [k \in Timers |-> FALSE]
  /\ cbLock = 0
  /\ pendLock = 0
  /\ poisoned = FALSE
  /\ tpc = [t \in Timers |-> "none"]
  /\ timed_out = [t \in Timers |-> FALSE]
  /\ \E fresh \in BOOLEAN :
       /\ workdir = (IF fresh THEN EmptyTree ELSE OldTree)
       /\ index = workdir
       /\ commits = (IF fresh THEN <<>> ELSE <<OldCommit>>)
       /\ head = Len(commits)
  /\ remote_head = 0
  /\ auto_push \in BOOLEAN
  /\ he_message = NoMessage
  /\ fired = <<>>
  /\ rapid = TRUE
  /\ spaced = TRUE
  /\ cancelEarly = [t \in Timers |-> FALSE]
  /\ faults = 0

\* ------------------------------------------- the watch loop's event filter

MaxPaths == 2       \* paths of one notify event
MaxRecvErrs == 2    \* "watch error" lines the loop prints

\* EventKind of the notify crate; Modify carries a ModifyKind.
ModifyKinds == {"Modify_Data", "Modify_Metadata", "Modify_Name"}
EventKinds == {"Access", "Create", "Remove", "Other"} \cup ModifyKinds

\* What the filter looks at in a path: whether a component is ".git", whether
\* the path lies in the work tree of a repository (Repository::discover and
\* strip_prefix succeed), whether the repository reports it ignored.
PathObjs ==
  {p \in [git_component : BOOLEAN, in_repo : BOOLEAN, ignored : BOOLEAN] :
     p.ignored => p.in_repo}
PathLists == UNION {[1..n -> PathObjs] : n \in 0..MaxPaths}
Events == [kind : EventKinds, paths : PathLists]
NoEvent == [kind |-> "none", paths |-> <<>>]

\* file_utils::was_modification
was_modification(ev) ==
  \/ ev.kind = "Remove"
  \/ ev.kind = "Create"
  \/ ev.kind \in ModifyKinds

\* watcher::is_git_file (never Err)
is_git_file(paths) ==
  IF paths = <<>> THEN FALSE
  ELSE \E i \in DOMAIN paths : paths[i].git_component

\* watcher::is_git_ignored, the for loop from path i on: "err" is the Err
\* that `?` returns, "true" and "false" are Ok(true) and Ok(false).
RECURSIVE IgnoredFrom(_, _)
IgnoredFrom(paths, i) ==
  IF i > Len(paths) THEN "false"
  ELSE IF ~paths[i].in_repo THEN "err"
  ELSE IF paths[i].ignored THEN "true"
  ELSE IgnoredFrom(paths, i + 1)

\* watcher::is_git_ignored
is_git_ignoredSwallowing(paths) ==
  IF paths = <<>> THEN "false"
  ELSE IF ~paths[1].in_repo THEN "false"
  ELSE IgnoredFrom(paths, 1)
is_git_ignored(paths) ==
  IF paths = <<>> THEN "false"
  ELSE IF ~paths[1].in_repo THEN "err"
  ELSE IgnoredFrom(paths, 1)

\* The if condition of the loop of watcher::watch_repo on Ok(Ok(ev)), with
\* its short-circuit order: "trigger", "discard", or "err" when `?` returns.
filter_bin(ev) ==
  IF ~was_modification(ev) THEN "discard"
  ELSE IF is_git_file(ev.paths) THEN "discard"
  ELSE IF is_git_ignored(ev.paths) = "err" THEN "err"
  ELSE IF is_git_ignored(ev.paths) = "true" THEN "discard"
  ELSE "trigger"

\* The if condition of the loop of lib.rs's watch_repo on Ok(Ok(ev)).
filter_lib(ev) == IF was_modification(ev) THEN "trigger" ELSE "discard"

Filter(variant, ev) == IF variant = "bin" THEN filter_bin(ev) ELSE filter_lib(ev)

\* ------------------------------------------------- the commit message text

\* Statuses as get_changed_files returns them: entries in path order, each
\* with the work-tree flags of its path.
FileNames == <<"a", "b", "c">>
StatusSets == {{"WT_NEW"}, {"WT_MODIFIED"}, {"WT_DELETED"}, {"WT_TYPECHANGE"}}
EntriesOf(f) ==
  SelectSeq([i \in DOMAIN FileNames |-> [path |-> FileNames[i], status |-> f[i]]],
            LAMBDA e : e.status # {})
StatusLists == {EntriesOf(f) : f \in [DOMAIN FileNames -> StatusSets \cup {{}}]}

\* [..].join(sep)
RECURSIVE Join(_, _)
Join(strs, sep) ==
  IF strs = <<>> THEN ""
  ELSE IF Len(strs) = 1 THEN strs[1]
  ELSE strs[1] \o sep \o Join(Tail(strs), sep)

\* filter_map(..).collect(): opts[i] is <<>> for None and <<x>> for Some(x)
RECURSIVE FilterMap(_)
FilterMap(opts) == IF opts = <<>> THEN <<>> ELSE Head(opts) \o FilterMap(Tail(opts))

\* get_commit_message: actions and types, "keep the order of these two arrays synced"
actionsReordered == <<"Modified", "Deleted", "Added">>
actions == <<"Deleted", "Modified", "Added">>
types(changed_files) ==
  <<SelectSeq(changed_files, LAMBDA f : "WT_DELETED" \in f.status),
    SelectSeq(changed_files, LAMBDA f : "WT_MODIFIED" \in f.status),
    SelectSeq(changed_files, LAMBDA f : "WT_NEW" \in f.status)>>

\* get_commit_message: summary
summary(changed_files) ==
  Join(FilterMap([i \in 1..3 |->
         IF types(changed_files)[i] # <<>>
           THEN <<actions[i] \o " " \o ToString(Len(types(changed_files)[i]))>>
           ELSE <<>>]), ", ")

\* get_commit_message: lines of one element of types
lines(changed_files, i) ==
  <<actions[i] \o ":">> \o
  [j \in 1..Len(types(changed_files)[i]) |-> "  " \o types(changed_files)[i][j].path]

\* get_commit_message: desc
desc(changed_files) ==
  Join(FilterMap([i \in 1..3 |->
         IF Len(lines(changed_files, i)) > 1
           THEN <<Join(lines(changed_files, i), "\n")>>
           ELSE <<>>]), "\n")

\* get_commit_message: [summary, desc].join("\n\n")
get_commit_message_string(changed_files) ==
  Join(<<summary(changed_files), desc(changed_files)>>, "\n\n")

\* ----------------------------------------------------------- push_commits

\* What push_commits reads: head.shorthand() ("HEAD" when the head is
\* detached), the name of branch.upstream() ("" when upstream() is Err), the
\* remotes of the repository, whether the server asks for credentials, the
\* credential types it accepts, the user name of the url ("" for None),
\* whether the transfer succeeds, and the status message with which the
\* remote rejects the ref ("" when it accepts it).
BranchNames == {"main", "dev", "HEAD"}
UpstreamNames == {"", "origin/main", "origin/feature", "origin/feat/x", "upstream/dev"}
CredTypes == {"SSH_KEY", "USER_PASS_PLAINTEXT", "DEFAULT"}
PushInputs ==
  [branch : BranchNames, upstream : UpstreamNames,
   remotes : {{}, {"origin", "upstream"}},
   auth : BOOLEAN, allowed : (SUBSET CredTypes) \ {{}}, user : {"", "git"},
   transport_ok : BOOLEAN, rejected : {"", "non-fast-forward"}]
NoPush ==
  [branch |-> "main", upstream |-> "", remotes |-> {}, auth |-> FALSE, allowed |-> {},
   user |-> "", transport_ok |-> TRUE, rejected |-> ""]
NoPushOut == [remote |-> "", refspec |-> "", cred |-> "none", log |-> <<>>, result |-> "none"]

\* splitn(2, '/'): the position of the separator, 0 when there is none
LastSlash(str) ==
  IF \E i \in 1..Len(str) : SubSeq(str, i, i) = "/"
    THEN CHOOSE i \in 1..Len(str) :
           /\ SubSeq(str, i, i) = "/"
           /\ \A j \in (i + 1)..Len(str) : SubSeq(str, j, j) # "/"
    ELSE 0
FirstSlash(str) ==
  IF \E i \in 1..Len(str) : SubSeq(str, i, i) = "/"
    THEN CHOOSE i \in 1..Len(str) :
           /\ SubSeq(str, i, i) = "/"
           /\ \A j \in 1..(i - 1) : SubSeq(str, j, j) # "/"
    ELSE 0

\* upstream_name.splitn(2, '/').collect()
splitn2(str) ==
  IF FirstSlash(str) = 0 THEN <<str>>
  ELSE <<SubSeq(str, 1, FirstSlash(str) - 1), SubSeq(str, FirstSlash(str) + 1, Len(str))>>

\* push_commits: (remote_name, remote_branch)
push_target(branch_name, upstream_name) ==
  IF upstream_name # ""
    THEN [remote_name |-> splitn2(upstream_name)[1],
          remote_branch |-> IF Len(splitn2(upstream_name)) >= 2
                              THEN splitn2(upstream_name)[2] ELSE branch_name]
    ELSE [remote_name |-> "origin", remote_branch |-> branch_name]

\* push_commits: refspec
refspec(remote_branch) == "refs/heads/" \o remote_branch \o ":refs/heads/" \o remote_branch

\* callbacks.credentials: the credential handed to the transport; "panic"
\* when username_from_url.unwrap() finds None
credentials(username_from_url, allowed_types) ==
  IF username_from_url = "" THEN "panic" ELSE "SSH_KEY"

\* callbacks.push_update_reference: the line logged and the value returned
push_update_referenceFailing(ref_name, status) ==
  [log |-> IF status # "" THEN <<"Failed to push ref: " \o ref_name \o ". Status: " \o status>>
                          ELSE <<>>,
   ret |-> IF status # "" THEN "err" ELSE "ok"]
push_update_reference(ref_name, status) ==
  [log |-> IF status # "" THEN <<"Failed to push ref: " \o ref_name \o ". Status: " \o status>>
                          ELSE <<>>,
   ret |-> "ok"]

\* -------------------------------------------------------------- submodules
Subs == {"s"}

\* ---------------------------------------------------------- create_commit

\* What create_commit reads: the work tree and the index, the paths that
\* cannot be staged (files the index cannot read), the configuration entries
\* user.name and user.email ("unset": no such entry, "utf8": a value,
\* "not_utf8": a value that is not valid UTF-8) and the head (0: unborn).
CcPaths == {"a", "b"}
CcTrees == [CcPaths -> {Absent, 1}]
ConfigEntries == {"unset", "utf8", "not_utf8"}
CommitInputs ==
  [workdir : CcTrees, index : CcTrees, unstageable : SUBSET CcPaths,
   user_name : ConfigEntries, user_email : ConfigEntries, head : {0, 1}]
NoCommitCall ==
  [workdir |-> [p \in CcPaths |-> Absent], index |-> [p \in CcPaths |-> Absent],
   unstageable |-> {}, user_name |-> "utf8", user_email |-> "utf8", head |-> 0]
NoCommitOut ==
  [result |-> "none", index |-> [p \in CcPaths |-> Absent], made |-> FALSE,
   tree |-> [p \in CcPaths |-> Absent], parents |-> {}, name |-> "", email |-> ""]

\* index.add_all(["*"], DEFAULT, None)?: Err when a changed file cannot be added
add_all_fails(idx, wd, bad) ==
  \E p \in bad : wd[p] # Absent /\ wd[p] # idx[p]

\* config.get_entry(key)?: Err when the entry is not set
get_entry_fails(entry) == entry = "unset"

\* entry.value().unwrap_or("Watchers"): value() is None when it is not UTF-8
value_or_watchers(entry) == IF entry = "utf8" THEN "configured" ELSE "Watchers"

\* create_commit, in the order of its statements
create_commit(in) ==
  IF add_all_fails(in.index, in.workdir, in.unstageable)
    THEN [NoCommitOut EXCEPT !.result = "err", !.index = in.index]
  ELSE IF get_entry_fails(in.user_name) \/ get_entry_fails(in.user_email)
    THEN [NoCommitOut EXCEPT !.result = "err", !.index = add_all(in.index, in.workdir)]
  ELSE [result |-> "ok", index |-> add_all(in.index, in.workdir), made |-> TRUE,
        tree |-> add_all(in.index, in.workdir), parents |-> Parents(in.head),
        name |-> value_or_watchers(in.user_name),
        email |-> value_or_watchers(in.user_email)]

\* ------------------------------------------------------------- initial state

\* watch_repo of the binary has entered its loop; nothing was received yet.
WatchIdle ==
  /\ wl_variant = "bin"
  /\ wl_pc = "recv"
  /\ wl_chan = "open"
  /\ wl_ev = NoEvent
  /\ wl_last = "none"
  /\ wl_errs = 0

\* get_commit_message is not running.
MsgIdle ==
  /\ msg_statuses = <<>>
  /\ msg_text = ""
  /\ msg_done = FALSE

\* push_commits is not running.
PushIdle ==
  /\ push_pc = "idle"
  /\ push_in = NoPush
  /\ push_out = NoPushOut

\* No submodule has a change; none has a commit of the watcher.
SubIdle ==
  /\ sub_dirty = [s \in Subs |-> FALSE]
  /\ sub_since = [s \in Subs |-> 0]
  /\ sub_commits = [s \in Subs |-> 0]

\* create_commit is not running.
CommitIdle ==
  /\ cc_in = NoCommitCall
  /\ cc_out = NoCommitOut
  /\ cc_done = FALSE

RestIdle == PushIdle /\ CommitIdle /\ SubIdle

Init == InitPipeline /\ WatchIdle /\ MsgIdle /\ RestIdle
\* ------------------------------------------------------------ the watch loop

\* on_event, first statement: *self.pending_context.lock().unwrap() = Some(context)
\* (OnEventStoreHoldingGuard: the same with the guard of pending_context kept
\* in a variable, so that the mutex stays locked during cancel_current_thread.)
OnEventStoreHoldingGuard ==
  /\ mainpc = "idle"
  /\ calls < MaxCalls
  /\ CanLock(pendLock # 0)
  /\ ~poisoned
  /\ calls' = calls + 1
  /\ pending_context' = calls + 1
  /\ mainpc' = "cancel"
  /\ pendLock' = MaxCalls + 1
  /\ mainOp' = "on_event"
  /\ rapid' = (rapid /\ (calls = 0 \/ ~timed_out[calls]))
  /\ spaced' = (spaced /\ (calls = 0 \/ timed_out[calls]))
  /\ UNCHANGED <<cancel_signal, current_thread, cancelled, sigLock, cbLock,
                 poisoned, tpc, timed_out, gitVars, fired, cancelEarly, faults>>
  /\ UNCHANGED auxVars
OnEventStore ==
  /\ mainpc = "idle"
  /\ calls < MaxCalls
  /\ CanLock(pendLock # 0)
  /\ ~poisoned
  /\ calls' = calls + 1
  /\ pending_context' = calls + 1
  /\ mainpc' = "cancel"
  /\ mainOp' = "on_event"
  /\ rapid' = (rapid /\ (calls = 0 \/ ~timed_out[calls]))
  /\ spaced' = (spaced /\ (calls = 0 \/ timed_out[calls]))
  /\ UNCHANGED <<cancel_signal, current_thread, cancelled, sigLock, cbLock, pendLock,
                 poisoned, tpc, timed_out, gitVars, fired, cancelEarly, faults>>
  /\ UNCHANGED auxVars

\* on_event on a poisoned pending_context mutex: lock().unwrap() panics in the
\* watch loop.
OnEventPoisoned ==
  /\ mainpc = "idle"
  /\ calls < MaxCalls
  /\ CanLock(pendLock # 0)
  /\ poisoned
  /\ mainpc' = "crashed"
  /\ UNCHANGED <<mainOp, calls, pending_context, cancel_signal, current_thread, cancelled,
                 sigLock, cbLock, pendLock, poisoned, tpc, timed_out, gitVars, histVars>>
  /\ UNCHANGED auxVars

\* Drop for Debouncer: calls cancel_current_thread
DropStartNoCancel ==
  /\ mainpc = "idle"
  /\ mainpc' = "dropped"
  /\ mainOp' = "drop"
  /\ UNCHANGED <<calls, pending_context, cancel_signal, current_thread, cancelled,
                 sigLock, cbLock, pendLock, poisoned, tpc, timed_out, gitVars, histVars>>
  /\ UNCHANGED auxVars
DropStart ==
  /\ mainpc = "idle"
  /\ mainpc' = "cancel"
  /\ mainOp' = "drop"
  /\ UNCHANGED <<calls, pending_context, cancel_signal, current_thread, cancelled,
                 sigLock, cbLock, pendLock, poisoned, tpc, timed_out, gitVars, histVars>>
  /\ UNCHANGED auxVars

AfterCancel == IF mainOp = "on_event" THEN "spawn" ELSE "dropped"

\* cancel_current_thread when current_thread is None
CancelNone ==
  /\ mainpc = "cancel"
  /\ current_thread = 0
  /\ mainpc' = AfterCancel
  /\ UNCHANGED <<mainOp, calls, pending_context, cancel_signal, current_thread, cancelled,
                 sigLock, cbLock, pendLock, poisoned, tpc, timed_out, gitVars, histVars>>
  /\ UNCHANGED auxVars

\* cancel_current_thread when current_thread is Some: lock the cancel_signal
\* mutex, set the flag, notify_all, take (and drop) the handle, unlock.
\* The handle is dropped, not joined.
CancelSome ==
  /\ mainpc = "cancel"
  /\ current_thread # 0
  /\ CanLock(sigLock[cancel_signal])
  /\ ~poisoned
  /\ cancelled' = SetCancelled(cancelled, cancel_signal)
  /\ tpc' = [tpc EXCEPT ![cancel_signal] = IF @ = "waiting" THEN "woken" ELSE @]
  /\ cancelEarly' = [cancelEarly EXCEPT ![cancel_signal] =
                       cancelled'[cancel_signal] /\ ~timed_out[cancel_signal]]
  /\ current_thread' = 0
  /\ mainpc' = AfterCancel
  /\ UNCHANGED <<mainOp, calls, pending_context, cancel_signal, sigLock, cbLock, pendLock,
                 poisoned, timed_out, gitVars, fired, rapid, spaced, faults>>
  /\ UNCHANGED auxVars

\* cancel_current_thread on the mutex a panicked timer thread poisoned:
\* lock.lock().unwrap() panics.
CancelPoisoned ==
  /\ mainpc = "cancel"
  /\ current_thread # 0
  /\ CanLock(sigLock[cancel_signal])
  /\ poisoned
  /\ mainpc' = "crashed"
  /\ UNCHANGED <<mainOp, calls, pending_context, cancel_signal, current_thread, cancelled,
                 sigLock, cbLock, pendLock, poisoned, tpc, timed_out, gitVars, histVars>>
  /\ UNCHANGED auxVars

\* on_event, the rest: a fresh cancel_signal, thread::spawn, current_thread = Some(handle)
Spawn ==
  /\ mainpc = "spawn"
  /\ cancel_signal' = calls
  /\ tpc' = [tpc EXCEPT ![calls] = "spawned"]
  /\ current_thread' = calls
  /\ mainpc' = "idle"
  /\ UNCHANGED <<mainOp, calls, pending_context, cancelled, sigLock, cbLock, pendLock,
                 poisoned, timed_out, gitVars, histVars>>
  /\ UNCHANGED auxVars

\* ---------------------------------------------------------- the timer thread

\* let mut cancelled = lock.lock().unwrap()
TimerLock(t) ==
  /\ tpc[t] = "spawned"
  /\ CanLock(sigLock[t])
  /\ sigLock' = [sigLock EXCEPT ![t] = TRUE]
  /\ tpc' = [tpc EXCEPT ![t] = "locked"]
  /\ UNCHANGED <<mainpc, mainOp, calls, pending_context, cancel_signal, current_thread,
                 cancelled, cbLock, pendLock, poisoned, timed_out, gitVars, histVars>>
  /\ UNCHANGED auxVars

\* cvar.wait_timeout(cancelled, delay): releases the mutex and blocks
TimerWait(t) ==
  /\ tpc[t] = "locked"
  /\ sigLock' = [sigLock EXCEPT ![t] = FALSE]
  /\ tpc' = [tpc EXCEPT ![t] = "waiting"]
  /\ UNCHANGED <<mainpc, mainOp, calls, pending_context, cancel_signal, current_thread,
                 cancelled, cbLock, pendLock, poisoned, timed_out, gitVars, histVars>>
  /\ UNCHANGED auxVars

\* the delay elapses
TimerTimeout(t) ==
  /\ tpc[t] = "waiting"
  /\ timed_out' = [timed_out EXCEPT ![t] = TRUE]
  /\ tpc' = [tpc EXCEPT ![t] = "woken"]
  /\ UNCHANGED <<mainpc, mainOp, calls, pending_context, cancel_signal, current_thread,
                 cancelled, sigLock, cbLock, pendLock, poisoned, gitVars, histVars>>
  /\ UNCHANGED auxVars

\* a spurious wake-up of the condition variable: the wait returns without a
\* notification and without the timeout
TimerSpurious(t) ==
  /\ tpc[t] = "waiting"
  /\ tpc' = [tpc EXCEPT ![t] = "woken"]
  /\ UNCHANGED <<mainpc, mainOp, calls, pending_context, cancel_signal, current_thread,
                 cancelled, sigLock, cbLock, pendLock, poisoned, timed_out, gitVars, histVars>>
  /\ UNCHANGED auxVars

\* wait_timeout re-acquires the mutex and returns;
\* if (!*cancelled && result.1.timed_out()): true
TimerCheckFireDroppingGuard(t) ==
  /\ tpc[t] = "woken"
  /\ CanLock(sigLock[t])
  /\ ShouldFire(cancelled[t], timed_out[t])
  /\ tpc' = [tpc EXCEPT ![t] = "lockcb"]
  /\ UNCHANGED <<mainpc, mainOp, calls, pending_context, cancel_signal, current_thread,
                 cancelled, sigLock, cbLock, pendLock, poisoned, timed_out, gitVars, histVars>>
  /\ UNCHANGED auxVars
TimerCheckFire(t) ==
  /\ tpc[t] = "woken"
  /\ CanLock(sigLock[t])
  /\ ShouldFire(cancelled[t], timed_out[t])
  /\ sigLock' = [sigLock EXCEPT ![t] = TRUE]
  /\ tpc' = [tpc EXCEPT ![t] = "lockcb"]
  /\ UNCHANGED <<mainpc, mainOp, calls, pending_context, cancel_signal, current_thread,
                 cancelled, cbLock, pendLock, poisoned, timed_out, gitVars, histVars>>
  /\ UNCHANGED auxVars

\* wait_timeout re-acquires the mutex and returns;
\* if (!*cancelled && result.1.timed_out()): false, the guard is dropped and
\* the thread ends
TimerCheckSkip(t) ==
  /\ tpc[t] = "woken"
  /\ CanLock(sigLock[t])
  /\ ~ShouldFire(cancelled[t], timed_out[t])
  /\ tpc' = [tpc EXCEPT ![t] = "done"]
  /\ UNCHANGED <<mainpc, mainOp, calls, pending_context, cancel_signal, current_thread,
                 cancelled, sigLock, cbLock, pendLock, poisoned, timed_out, gitVars, histVars>>
  /\ UNCHANGED auxVars

\* callback.lock().  (The mutex is never poisoned here: a timer thread gets
\* this far only when no later call cancelled it, and after a panic in the
\* callback the watch loop spawns no further thread.)
TimerLockCallback(t) ==
  /\ tpc[t] = "lockcb"
  /\ CanLock(cbLock # 0)
  /\ cbLock' = t
  /\ tpc' = [tpc EXCEPT ![t] = "lockctx"]
  /\ UNCHANGED <<mainpc, mainOp, calls, pending_context, cancel_signal, current_thread,
                 cancelled, sigLock, pendLock, poisoned, timed_out, gitVars, histVars>>
  /\ UNCHANGED auxVars

Invocation(t) ==
  [timer |-> t, payload |-> Take(pending_context, t), latest |-> calls,
   opened |-> FALSE, read |-> FALSE, changed |-> {}, head0 |-> head, head1 |-> head,
   commit |-> 0,
   push |-> "none", err |-> FALSE, running |-> TRUE]

\* pending_context.lock() and context_guard.take(): Some(context), cb(context) starts
TimerTakeSome(t) ==
  /\ tpc[t] = "lockctx"
  /\ CanLock(pendLock # 0)
  /\ pending_context # 0
  /\ pendLock' = t
  /\ pending_context' = 0
  /\ fired' = Append(fired, Invocation(t))
  /\ tpc' = [tpc EXCEPT ![t] = "he_open"]
  /\ UNCHANGED <<mainpc, mainOp, calls, cancel_signal, current_thread, cancelled, sigLock,
                 cbLock, poisoned, timed_out, gitVars, rapid, spaced, cancelEarly, faults>>
  /\ UNCHANGED auxVars

\* pending_context.lock() and context_guard.take(): None, the thread ends
TimerTakeNone(t) ==
  /\ tpc[t] = "lockctx"
  /\ CanLock(pendLock # 0)
  /\ pending_context = 0
  /\ tpc' = [tpc EXCEPT ![t] = "done"]
  /\ sigLock' = [sigLock EXCEPT ![t] = FALSE]
  /\ cbLock' = 0
  /\ UNCHANGED <<mainpc, mainOp, calls, pending_context, cancel_signal, current_thread,
                 cancelled, pendLock, poisoned, timed_out, gitVars, histVars>>
  /\ UNCHANGED auxVars

\* ------------------------------------------- the callback: handle_event

\* The record of the running invocation is the last one of the history.
Note(f, field, v) == [f EXCEPT ![Len(f)] = [@ EXCEPT ![field] = v]]
Read(f, st) == [f EXCEPT ![Len(f)] = [@ EXCEPT !.opened = TRUE, !.read = TRUE,
                                                !.changed = DOMAIN st]]
Finish(f, h) == [f EXCEPT ![Len(f)] = [@ EXCEPT !.running = FALSE, !.head1 = h]]

\* The closure returns: context_guard, cb and cancelled are dropped, the thread ends.
ThreadEnds(t) ==
  /\ tpc' = [tpc EXCEPT ![t] = "done"]
  /\ sigLock' = [sigLock EXCEPT ![t] = FALSE]
  /\ cbLock' = 0
  /\ pendLock' = 0

\* The closure panics: the same, and the mutexes it held are poisoned.
ThreadPanics(t) ==
  /\ ThreadEnds(t)
  /\ poisoned' = TRUE
  /\ faults' = faults + 1

\* open_or_create_repo fails: the error is printed and handle_event returns
HandleOpenFails(t) ==
  /\ tpc[t] = "he_open"
  /\ faults < MaxFaults
  /\ faults' = faults + 1
  /\ fired' = Finish(fired, head)
  /\ ThreadEnds(t)
  /\ UNCHANGED <<mainpc, mainOp, calls, pending_context, cancel_signal, current_thread,
                 cancelled, poisoned, timed_out, gitVars, rapid, spaced, cancelEarly>>
  /\ UNCHANGED auxVars

\* open_or_create_repo is Ok; get_changed_files and the is_empty test: empty,
\* handle_event returns
HandleStatusEmpty(t) ==
  /\ tpc[t] = "he_open"
  /\ is_empty(get_changed_files(index, workdir))
  /\ fired' = Finish(Read(fired, get_changed_files(index, workdir)), head)
  /\ ThreadEnds(t)
  /\ UNCHANGED <<mainpc, mainOp, calls, pending_context, cancel_signal, current_thread,
                 cancelled, poisoned, timed_out, gitVars, rapid, spaced, cancelEarly, faults>>
  /\ UNCHANGED auxVars

\* open_or_create_repo is Ok; get_changed_files and the is_empty test: not
\* empty; get_commit_message
HandleStatusChanged(t) ==
  /\ tpc[t] = "he_open"
  /\ ~is_empty(get_changed_files(index, workdir))
  /\ he_message' = get_commit_message(get_changed_files(index, workdir))
  /\ fired' = Read(fired, get_changed_files(index, workdir))
  /\ tpc' = [tpc EXCEPT ![t] = "he_commit"]
  /\ UNCHANGED <<mainpc, mainOp, calls, pending_context, cancel_signal, current_thread,
                 cancelled, sigLock, cbLock, pendLock, poisoned, timed_out, workdir, index,
                 commits, head, remote_head, auto_push, rapid, spaced, cancelEarly, faults>>
  /\ UNCHANGED auxVars

\* open_or_create_repo is Ok; get_changed_files: repo.statuses(..) is Err,
\* unwrap panics
HandleStatusPanics(t) ==
  /\ tpc[t] = "he_open"
  /\ faults < MaxFaults
  /\ fired' = Finish(Note(Note(fired, "opened", TRUE), "err", TRUE), head)
  /\ ThreadPanics(t)
  /\ UNCHANGED <<mainpc, mainOp, calls, pending_context, cancel_signal, current_thread,
                 cancelled, timed_out, gitVars, rapid, spaced, cancelEarly>>
  /\ UNCHANGED auxVars

Commit(h, tree, msg) ==
  [parents |-> Parents(h), tree |-> tree, message |-> msg, base |-> h, by |-> "watchers"]

\* create_commit: index.add_all, index.write, write_tree, signature,
\* repo.head(), repo.commit(Some("HEAD"), ..); then handle_event either
\* returns or goes on to push_commits
HandleCommit(t) ==
  /\ tpc[t] = "he_commit"
  /\ index' = add_all(index, workdir)
  /\ commits' = Append(commits, Commit(head, index', he_message))
  /\ head' = Len(commits')
  /\ IF ShouldPush(auto_push)
       THEN /\ fired' = Note(fired, "commit", head')
            /\ tpc' = [tpc EXCEPT ![t] = "he_push"]
            /\ UNCHANGED <<sigLock, cbLock, pendLock>>
       ELSE /\ fired' = Finish(Note(fired, "commit", head'), head')
            /\ ThreadEnds(t)
  /\ UNCHANGED <<mainpc, mainOp, calls, pending_context, cancel_signal, current_thread,
                 cancelled, poisoned, timed_out, workdir, remote_head, auto_push,
                 he_message, rapid, spaced, cancelEarly, faults>>
  /\ UNCHANGED auxVars

\* create_commit returns Err, before or after the index was written; unwrap panics
HandleCommitPanics(t) ==
  /\ tpc[t] = "he_commit"
  /\ faults < MaxFaults
  /\ \E written \in BOOLEAN : index' = (IF written THEN add_all(index, workdir) ELSE index)
  /\ fired' = Finish(Note(fired, "err", TRUE), head)
  /\ ThreadPanics(t)
  /\ UNCHANGED <<mainpc, mainOp, calls, pending_context, cancel_signal, current_thread,
                 cancelled, timed_out, workdir, commits, head, remote_head, auto_push,
                 he_message, rapid, spaced, cancelEarly>>
  /\ UNCHANGED auxVars

\* push_commits: Ok, the remote branch is updated; or Err, which is printed
HandlePush(t) ==
  /\ tpc[t] = "he_push"
  /\ \E ok \in BOOLEAN :
       /\ remote_head' = (IF ok THEN head ELSE remote_head)
       /\ fired' = Finish(Note(fired, "push", IF ok THEN "ok" ELSE "failed"), head)
  /\ ThreadEnds(t)
  /\ UNCHANGED <<mainpc, mainOp, calls, pending_context, cancel_signal, current_thread,
                 cancelled, poisoned, timed_out, workdir, index, commits, head, auto_push, he_message, rapid, spaced, cancelEarly, faults>>
  /\ UNCHANGED auxVars

\* ------------------------------------------------------------------ the user

\* The user creates, rewrites or deletes one file of the watch directory.
UserChange ==
  /\ \E p \in Paths, c \in Contents :
       /\ c # workdir[p]
       /\ workdir' = [workdir EXCEPT ![p] = c]
  /\ UNCHANGED <<debVars, index, commits, head, remote_head, auto_push,
                 he_message, fired, rapid, spaced, cancelEarly, faults>>
  /\ UNCHANGED auxVars

\* ------------------------------------------------------------- specification
TimerStep(t) ==
  \/ TimerLock(t)
  \/ TimerWait(t)
  \/ TimerTimeout(t)
  \/ TimerSpurious(t)
  \/ TimerCheckFire(t)
  \/ TimerCheckSkip(t)
  \/ TimerLockCallback(t)
  \/ TimerTakeSome(t)
  \/ TimerTakeNone(t)

HandleStep(t) ==
  \/ HandleOpenFails(t)
  \/ HandleStatusEmpty(t)
  \/ HandleStatusChanged(t)
  \/ HandleStatusPanics(t)
  \/ HandleCommit(t)
  \/ HandleCommitPanics(t)
  \/ HandlePush(t)

Next ==
  \/ OnEventStore
  \/ OnEventPoisoned
  \/ DropStart
  \/ CancelNone
  \/ CancelSome
  \/ CancelPoisoned
  \/ Spawn
  \/ \E t \in Timers : TimerStep(t)
  \/ \E t \in Timers : HandleStep(t)
  \/ UserChange

Spec == Init /\ [][Next]_vars

\* A pipeline that has not started: one initial state of the pipeline.
Frozen == InitPipeline /\ workdir = EmptyTree /\ ~auto_push

\* ------------------------------------------------- the loop of watch_repo
\* Each action is one iteration of `loop { match rx.recv() { .. } }`.  The
\* on_event call made by trigger_debouncer is the pipeline's OnEventStore;
\* here the iteration is recorded in wl_ev and wl_last.

\* Ok(Ok(ev)) and the if condition holds: trigger_debouncer()
WatchTrigger ==
  /\ wl_pc = "recv"
  /\ wl_chan = "open"
  /\ \E ev \in Events :
       /\ Filter(wl_variant, ev) = "trigger"
       /\ wl_ev' = ev
  /\ wl_last' = "trigger"
  /\ UNCHANGED <<wl_variant, wl_pc, wl_chan, wl_errs, pipeVars, msgVars, restVars>>

\* Ok(Ok(ev)) and the if condition is false: nothing is done
WatchDiscard ==
  /\ wl_pc = "recv"
  /\ wl_chan = "open"
  /\ \E ev \in Events :
       /\ Filter(wl_variant, ev) = "discard"
       /\ wl_ev' = ev
  /\ wl_last' = "discard"
  /\ UNCHANGED <<wl_variant, wl_pc, wl_chan, wl_errs, pipeVars, msgVars, restVars>>

\* Ok(Ok(ev)) and is_git_ignored(&ev.paths)? returns the Err from watch_repo
WatchFilterErr ==
  /\ wl_pc = "recv"
  /\ wl_chan = "open"
  /\ \E ev \in Events :
       /\ Filter(wl_variant, ev) = "err"
       /\ wl_ev' = ev
  /\ wl_last' = "filter_err"
  /\ wl_pc' = "returned"
  /\ UNCHANGED <<wl_variant, wl_chan, wl_errs, pipeVars, msgVars, restVars>>

\* Ok(Err(e)), an error reported by the notify watcher: `if let Ok(ev) = ev`
\* does not match, nothing is done
WatchNotifyErr ==
  /\ wl_pc = "recv"
  /\ wl_chan = "open"
  /\ wl_ev' = NoEvent
  /\ wl_last' = "notify_err"
  /\ UNCHANGED <<wl_variant, wl_pc, wl_chan, wl_errs, pipeVars, msgVars, restVars>>

\* Every sender of the channel is dropped (the notify watcher's thread ended).
ChannelCloses ==
  /\ wl_chan = "open"
  /\ wl_chan' = "closed"
  /\ UNCHANGED <<wl_variant, wl_pc, wl_ev, wl_last, wl_errs, pipeVars, msgVars, restVars>>

\* rx.recv() is Err(RecvError): println!("watch error: ..") and the loop goes on
WatchRecvErr ==
  /\ wl_pc = "recv"
  /\ wl_chan = "closed"
  /\ wl_errs < MaxRecvErrs
  /\ wl_errs' = wl_errs + 1
  /\ wl_ev' = NoEvent
  /\ wl_last' = "recv_err"
  /\ UNCHANGED <<wl_variant, wl_pc, wl_chan, pipeVars, msgVars, restVars>>

InitWatch ==
  /\ Frozen
  /\ MsgIdle
  /\ RestIdle
  /\ wl_variant \in {"bin", "lib"}
  /\ wl_pc = "recv"
  /\ wl_chan = "open"
  /\ wl_ev = NoEvent
  /\ wl_last = "none"
  /\ wl_errs = 0

NextWatch ==
  \/ WatchTrigger
  \/ WatchDiscard
  \/ WatchFilterErr
  \/ WatchNotifyErr
  \/ ChannelCloses
  \/ WatchRecvErr

SpecWatch == InitWatch /\ [][NextWatch]_vars

\* --------------------------------------------------- get_commit_message

\* get_commit_message(&changed_files) returns the message
GetCommitMessage ==
  /\ ~msg_done
  /\ msg_text' = get_commit_message_string(msg_statuses)
  /\ msg_done' = TRUE
  /\ UNCHANGED <<msg_statuses, pipeVars, watchVars, restVars>>

InitMsg ==
  /\ Frozen
  /\ WatchIdle
  /\ RestIdle
  /\ msg_statuses \in StatusLists
  /\ msg_text = ""
  /\ msg_done = FALSE

NextMsg == GetCommitMessage

SpecMsg == InitMsg /\ [][NextMsg]_vars

\* ----------------------------------------------------------- push_commits

\* repo.head(), head.shorthand(), repo.find_branch, branch.upstream(): the
\* remote and the refspec are computed
PushResolve ==
  /\ push_pc = "start"
  /\ push_in.branch # "HEAD"
  /\ push_out' = [push_out EXCEPT
       !.remote = push_target(push_in.branch, push_in.upstream).remote_name,
       !.refspec = refspec(push_target(push_in.branch, push_in.upstream).remote_branch)]
  /\ push_pc' = "resolved"
  /\ UNCHANGED <<push_in, pipeVars, watchVars, msgVars, ccVars, subVars>>

\* repo.find_branch(branch_name, BranchType::Local)? is Err: the head is detached
PushResolveFails ==
  /\ push_pc = "start"
  /\ push_in.branch = "HEAD"
  /\ push_out' = [push_out EXCEPT !.result = "err"]
  /\ push_pc' = "done"
  /\ UNCHANGED <<push_in, pipeVars, watchVars, msgVars, ccVars, subVars>>

\* repo.find_remote(&remote_name)? is Err
PushFindRemoteFails ==
  /\ push_pc = "resolved"
  /\ push_out.remote \notin push_in.remotes
  /\ push_out' = [push_out EXCEPT !.result = "err"]
  /\ push_pc' = "done"
  /\ UNCHANGED <<push_in, pipeVars, watchVars, msgVars, ccVars, subVars>>

\* remote.push(..): the server asks for credentials, the credentials callback runs
PushCredentials ==
  /\ push_pc = "resolved"
  /\ push_out.remote \in push_in.remotes
  /\ push_in.auth
  /\ push_out' = [push_out EXCEPT
       !.cred = credentials(push_in.user, push_in.allowed),
       !.result = IF credentials(push_in.user, push_in.allowed) = "panic"
                    THEN "panic" ELSE @]
  /\ push_pc' = IF credentials(push_in.user, push_in.allowed) = "panic"
                  THEN "done" ELSE "authed"
  /\ UNCHANGED <<push_in, pipeVars, watchVars, msgVars, ccVars, subVars>>

\* remote.push(..): the server asks for no credentials
PushNoCredentials ==
  /\ push_pc = "resolved"
  /\ push_out.remote \in push_in.remotes
  /\ ~push_in.auth
  /\ push_pc' = "authed"
  /\ UNCHANGED <<push_in, push_out, pipeVars, watchVars, msgVars, ccVars, subVars>>

\* remote.push(..)?: authentication and transfer; when they succeed the
\* push_update_reference callback runs for the pushed ref, and an Err it
\* returns fails the push; then Ok(())
PushTransfer ==
  /\ push_pc = "authed"
  /\ LET accepted == ~push_in.auth \/ push_out.cred \in push_in.allowed
         ref_name == "refs/heads/" \o
                       push_target(push_in.branch, push_in.upstream).remote_branch
         cb == push_update_reference(ref_name, push_in.rejected)
     IN IF accepted /\ push_in.transport_ok
          THEN push_out' = [push_out EXCEPT !.log = cb.log,
                                            !.result = IF cb.ret = "ok" THEN "ok" ELSE "err"]
          ELSE push_out' = [push_out EXCEPT !.result = "err"]
  /\ push_pc' = "done"
  /\ UNCHANGED <<push_in, pipeVars, watchVars, msgVars, ccVars, subVars>>

InitPush ==
  /\ Frozen
  /\ WatchIdle
  /\ MsgIdle
  /\ CommitIdle
  /\ SubIdle
  /\ push_pc = "start"
  /\ push_in \in PushInputs
  /\ push_out = NoPushOut

NextPush ==
  \/ PushResolve
  \/ PushResolveFails
  \/ PushFindRemoteFails
  \/ PushCredentials
  \/ PushNoCredentials
  \/ PushTransfer

SpecPush == InitPush /\ [][NextPush]_vars

\* ---------------------------------------------------------- create_commit

\* create_commit(&repo, Some(&message)) returns
CreateCommit ==
  /\ ~cc_done
  /\ cc_out' = create_commit(cc_in)
  /\ cc_done' = TRUE
  /\ UNCHANGED <<cc_in, pipeVars, watchVars, msgVars, pushVars, subVars>>

InitCommit ==
  /\ Frozen
  /\ WatchIdle
  /\ MsgIdle
  /\ PushIdle
  /\ SubIdle
  /\ cc_in \in CommitInputs
  /\ cc_out = NoCommitOut
  /\ cc_done = FALSE

NextCommit == CreateCommit

SpecCommit == InitCommit /\ [][NextCommit]_vars

\* -------------------------------------------------------------- submodules
\* The pipeline in a repository with a submodule.  The user edits a file of
\* the submodule; no statement of handle_event, get_changed_files or
\* create_commit opens a submodule ("// TODO: submodules", git.rs:144).

SubChange ==
  /\ \E s \in Subs :
       /\ ~sub_dirty[s]
       /\ sub_dirty' = [sub_dirty EXCEPT ![s] = TRUE]
       /\ sub_since' = [sub_since EXCEPT ![s] = Len(fired)]
  /\ UNCHANGED <<sub_commits, pipeVars, watchVars, msgVars, pushVars, ccVars>>

NextSubmodule ==
  \/ Next
  \/ SubChange

SpecSubmodule == Init /\ [][NextSubmodule]_vars

\* ------------------------------ a new file is created and then modified
\* The pipeline in a freshly initialised repository, where the user creates
\* one file and then rewrites it, and the watch loop calls on_event once for
\* the create event and once for the modify event; the debouncer is not dropped.
NewFile == "a"

CreateFile ==
  /\ workdir[NewFile] = Absent
  /\ calls = 0
  /\ UserChange
  /\ workdir'[NewFile] = 1

CreateEvent ==
  /\ workdir[NewFile] # Absent
  /\ calls = 0
  /\ OnEventStore

ModifyFile ==
  /\ workdir[NewFile] = 1
  /\ calls <= 1
  /\ UserChange
  /\ workdir'[NewFile] = 2

ModifyEvent ==
  /\ workdir[NewFile] = 2
  /\ calls = 1
  /\ OnEventStore

ModifyEventPoisoned ==
  /\ workdir[NewFile] = 2
  /\ calls = 1
  /\ OnEventPoisoned

InitCreateModify == Init /\ workdir = EmptyTree

NextCreateModify ==
  \/ CreateFile
  \/ CreateEvent
  \/ ModifyFile
  \/ ModifyEvent
  \/ ModifyEventPoisoned
  \/ CancelNone
  \/ CancelSome
  \/ CancelPoisoned
  \/ Spawn
  \/ \E t \in Timers : TimerStep(t)
  \/ \E t \in Timers : HandleStep(t)

SpecCreateModify == InitCreateModify /\ [][NextCreateModify]_vars

\* ------------------------------------ no change after the first commit

\* The user changes files of the watched directory only until handle_event
\* has created a commit; the debouncer and handle_event as in Spec.
UserChangeBeforeCommit ==
  /\ \A i \in DOMAIN commits : commits[i].by # "watchers"
  /\ UserChange

NextQuiesce ==
  \/ OnEventStore
  \/ OnEventPoisoned
  \/ DropStart
  \/ CancelNone
  \/ CancelSome
  \/ CancelPoisoned
  \/ Spawn
  \/ \E t \in Timers : TimerStep(t)
  \/ \E t \in Timers : HandleStep(t)
  \/ UserChangeBeforeCommit

SpecQuiesce == Init /\ [][NextQuiesce]_vars

\* ------------------------------------------------------------------ claims

Alive(t) == tpc[t] \notin {"none", "done"}
Firing(t) == tpc[t] \in {"lockcb", "lockctx", "he_open", "he_commit", "he_push"}
Armed(t) == Alive(t) /\ ~cancelled[t]
Invoked(t) == \E i \in DOMAIN fired : fired[i].timer = t

\* Every call has returned, nothing was dropped and every timer thread has ended.
Quiescent == mainpc = "idle" /\ \A t \in Timers : ~Alive(t)

\* C1: N >= 1 on_event calls, each arriving before the timer armed by the
\* previous call has expired, and no call after the last one: the callback is
\* invoked exactly once in total.
C1_ExactlyOnce == (calls >= 1 /\ rapid /\ Quiescent) => Len(fired) = 1

\* C2: every callback invocation receives the payload stored by the most
\* recent on_event call made before the payload was taken; the payload of a
\* superseded call is never delivered.
C2_LastPayload == \A i \in DOMAIN fired : fired[i].payload = fired[i].latest

C2_Witness == \E i \in DOMAIN fired : fired[i].latest >= 2 /\ fired[i].payload = fired[i].latest

\* C3: the payload stored by on_event call k is delivered only by the timer
\* that call k armed; a timer armed by an earlier call never delivers a
\* payload stored by a later call.
C3_OwnTimerDelivers == \A i \in DOMAIN fired : fired[i].timer = fired[i].payload

\* C4: on_event calls that each arrive after the timer armed by the previous
\* call has expired: the number of callback invocations equals the number of
\* calls.
C4_OncePerCall == (calls >= 1 /\ spaced /\ Quiescent) => Len(fired) = calls

\* C5: there is never a state with two timers that are both armed (not
\* cancelled and not finished).
C5_AtMostOneArmed == Cardinality({t \in Timers : Armed(t)}) <= 1

C5_Witness ==
  \E t1, t2 \in Timers : t1 # t2 /\ Alive(t1) /\ cancelled[t1] /\ Armed(t2)

\* C6: a timer that is cancelled before its timeout never invokes the
\* callback and never takes the pending payload.
C6_CancelledNeverFires ==
  \A t \in Timers : cancelEarly[t] => (~Firing(t) /\ ~Invoked(t))

C6_Witness ==
  \E t \in Timers : cancelEarly[t] /\ timed_out[t] /\ tpc[t] = "done"
                    /\ pending_context # 0

\* C7: at the moment the new timer task is spawned, the previous timer task
\* has terminated.
C7_PreviousTerminatedAtSpawn ==
  \A t \in Timers : (t > 1 /\ tpc[t] # "none") => tpc[t - 1] = "done"

\* C8: after drop has returned no timer task of the debouncer is still
\* running.
C8_NoTimerAfterDrop == mainpc = "dropped" => \A t \in Timers : ~Alive(t)

\* C9: a firing of handle_event whose status set is empty creates no commit,
\* performs no push, leaves the head reference unchanged and reports no error.
C9_EmptyStatusNoCommit ==
  \A i \in DOMAIN fired :
    (fired[i].read /\ fired[i].changed = {}) =>
      /\ fired[i].commit = 0
      /\ fired[i].push = "none"
      /\ fired[i].head1 = fired[i].head0
      /\ ~fired[i].err
      /\ ~fired[i].running

C9_Witness ==
  \E i \in DOMAIN fired : fired[i].read /\ fired[i].changed = {} /\ auto_push

\* C10: the commit history is a linear chain: a commit created with no head
\* commit has no parent, every other commit has exactly one parent, the head
\* commit at that time, and the head reference points at the newest commit.
C10_LinearHistory ==
  /\ head = Len(commits)
  /\ \A i \in DOMAIN commits :
       commits[i].by = "watchers" =>
         /\ commits[i].base = i - 1
         /\ commits[i].parents = (IF i = 1 THEN {} ELSE {i - 1})

C10_Witness ==
  /\ Len(commits) >= 2
  /\ commits[1].by = "watchers"
  /\ commits[2].by = "watchers"

\* C11: a failure of the status read or of the commit creation inside the
\* callback aborts only that firing: after a firing that failed the watch loop
\* has not crashed, so that it can call on_event again and arm a new timer.
C11_FailureAbortsOnlyFiring ==
  (\E i \in DOMAIN fired : fired[i].err) => mainpc # "crashed"

C13_MessageFormat ==
  LET Cat(flag) == SelectSeq(msg_statuses, LAMBDA f : flag \in f.status)
      Sep(x, sep, y) == IF x = "" THEN y ELSE IF y = "" THEN x ELSE x \o sep \o y
      Count(name, ls) == IF ls = <<>> THEN "" ELSE name \o " " \o ToString(Len(ls))
      Line(ls, j) == IF j <= Len(ls) THEN "\n  " \o ls[j].path ELSE ""
      Block(name, ls) ==
        IF ls = <<>> THEN ""
        ELSE name \o ":" \o Line(ls, 1) \o Line(ls, 2) \o Line(ls, 3)
      D == Cat("WT_DELETED")
      M == Cat("WT_MODIFIED")
      A == Cat("WT_NEW")
      ExpSummary ==
        Sep(Sep(Count("Deleted", D), ", ", Count("Modified", M)), ", ", Count("Added", A))
      ExpDetail ==
        Sep(Sep(Block("Deleted", D), "\n", Block("Modified", M)), "\n", Block("Added", A))
  IN msg_done =>
       /\ msg_text = ExpSummary \o "\n\n" \o ExpDetail
       /\ msg_statuses = <<[path |-> "a", status |-> {"WT_DELETED"}],
                           [path |-> "b", status |-> {"WT_MODIFIED"}],
                           [path |-> "c", status |-> {"WT_MODIFIED"}]>>
            => msg_text = "Deleted 1, Modified 2\n\nDeleted:\n  a\nModified:\n  b\n  c"

C13_Witness ==
  /\ msg_done
  /\ Len(msg_statuses) = 3
  /\ msg_statuses[1].status = {"WT_DELETED"}
  /\ msg_statuses[2].status = {"WT_MODIFIED"}
  /\ msg_statuses[3].status = {"WT_MODIFIED"}
  /\ msg_text = "Deleted 1, Modified 2\n\nDeleted:\n  a\nModified:\n  b\n  c"

\* C14: an event one of whose paths has a component ".git" never triggers
\* the debouncer, whatever its kind and whatever the ignore rules say.
C14_GitPathNeverTriggers ==
  (\E i \in DOMAIN wl_ev.paths : wl_ev.paths[i].git_component) => wl_last # "trigger"

\* C15: the watcher does not react to its own commits: an event for files
\* that a commit writes inside the repository's .git directory (objects and
\* references created, the index rewritten and renamed into place, lock files
\* removed) never leads to an on_event call.
C15_OwnCommitNeverTriggers ==
  ( /\ wl_ev.kind \in {"Create", "Modify_Data", "Modify_Name", "Remove"}
    /\ wl_ev.paths # <<>>
    /\ \A i \in DOMAIN wl_ev.paths :
         wl_ev.paths[i].git_component /\ wl_ev.paths[i].in_repo )
  => wl_last # "trigger"

\* C16: only events of kind create, modify (of the data) or remove trigger
\* the debouncer; rename, metadata-only, access and other events never do,
\* also when rename and metadata changes arrive as sub-kinds of modify.
C16_OnlyCreateModifyRemove ==
  wl_last = "trigger" => wl_ev.kind \in {"Create", "Modify_Data", "Remove"}

\* C17: an event is discarded for being ignored only when every one of its
\* paths is ignored: an event of a relevant kind with several paths, all in
\* the work tree, none under .git, at least one of them not ignored,
\* triggers the debouncer.
C17_DiscardOnlyIfAllIgnored ==
  ( /\ wl_ev.kind \in {"Create", "Modify_Data", "Remove"}
    /\ Len(wl_ev.paths) >= 2
    /\ \A i \in DOMAIN wl_ev.paths :
         ~wl_ev.paths[i].git_component /\ wl_ev.paths[i].in_repo
    /\ \E i \in DOMAIN wl_ev.paths : ~wl_ev.paths[i].ignored )
  => wl_last = "trigger"

\* C18: an event with an empty path list never triggers the debouncer.
C18_EmptyPathsNeverTrigger ==
  wl_last = "trigger" => wl_ev.paths # <<>>

\* C19: when the event channel is closed the watch loop ends by returning an
\* error: once rx.recv() has reported the closed channel, watch_repo has
\* returned.
C19_ReturnsWhenStreamEnds ==
  wl_errs >= 1 => wl_pc = "returned"

\* C20: a new file is created and, before the timer of the create event
\* expires, modified; the two events give exactly one firing and exactly one
\* commit, whose message lists the file once, under Added (no backend failure).
C20_CreateThenModifyOneCommit ==
  ( /\ calls = 2
    /\ rapid
    /\ workdir[NewFile] = 2
    /\ faults = 0
    /\ Quiescent )
  => /\ Len(fired) = 1
     /\ Len(commits) = 1
     /\ commits[1].message = [deleted |-> {}, modified |-> {}, added |-> {NewFile}]

\* C24: in the binary's watch loop, when an event gets as far as the ignore
\* check (its kind is a modification, no path has a .git component) and no
\* repository can be found for its first path, the event neither triggers the
\* debouncer nor is discarded: watch_repo returns the error, and having
\* returned it processes no further event.
C24_IgnoreErrorPropagates ==
  /\ ( /\ wl_variant = "bin"
       /\ wl_ev.kind \in {"Create", "Remove"} \cup ModifyKinds
       /\ wl_ev.paths # <<>>
       /\ \A i \in DOMAIN wl_ev.paths : ~wl_ev.paths[i].git_component
       /\ ~wl_ev.paths[1].in_repo )
     => (wl_last = "filter_err" /\ wl_pc = "returned")
  /\ wl_pc = "returned" => wl_last = "filter_err"

C24_Witness ==
  /\ wl_variant = "bin"
  /\ wl_pc = "returned"
  /\ wl_last = "filter_err"
  /\ wl_ev.kind = "Create"
  /\ Len(wl_ev.paths) = 1
  /\ ~wl_ev.paths[1].in_repo
  /\ wl_chan = "open"

\* C29: the three mutexes are never taken in a cycle, so no interleaving of
\* on_event calls, timer threads and drop deadlocks: whenever a call is in
\* progress or a timer thread is alive, some thread can take its next step.
\* Every thread takes a bounded number of steps, so every call returns (or,
\* after a callback that panicked, ends in the panic).
C29_NoDeadlock ==
  (mainpc \in {"cancel", "spawn"} \/ \E t \in Timers : Alive(t))
  => ENABLED ( \/ CancelNone
               \/ CancelSome
               \/ CancelPoisoned
               \/ Spawn
               \/ \E t \in Timers : TimerStep(t)
               \/ \E t \in Timers : HandleStep(t) )

\* cancel_current_thread waits for the mutex that a timer thread holds while
\* it runs the callback.
C29_Witness ==
  /\ mainpc = "cancel"
  /\ current_thread # 0
  /\ sigLock[cancel_signal]
  /\ tpc[cancel_signal] \in {"he_open", "he_commit", "he_push"}
  /\ pendLock = cancel_signal

\* C30: callback invocations never overlap: at most one timer thread is
\* inside handle_event, also while another timer thread is alive.
C30_NoOverlap ==
  Cardinality({t \in Timers : tpc[t] \in {"he_open", "he_commit", "he_push"}}) <= 1

C30_Witness ==
  \E t1, t2 \in Timers :
    /\ t1 # t2
    /\ tpc[t1] \in {"he_open", "he_commit", "he_push"}
    /\ Alive(t2)

\* C21: the push target.  With an upstream named origin/feature the push
\* goes to remote origin with refspec refs/heads/feature:refs/heads/feature;
\* in general the upstream name is split at its first '/', the part before
\* it is the remote and the part after it the branch of the refspec.  With
\* no upstream on branch main the push goes to origin with refspec
\* refs/heads/main:refs/heads/main.
C21_PushTarget ==
  push_out.refspec # "" =>
    /\ push_in.upstream = "origin/feature" =>
         /\ push_out.remote = "origin"
         /\ push_out.refspec = "refs/heads/feature:refs/heads/feature"
    /\ (push_in.upstream = "" /\ push_in.branch = "main") =>
         /\ push_out.remote = "origin"
         /\ push_out.refspec = "refs/heads/main:refs/heads/main"
    /\ \A r \in {"origin", "upstream"}, b \in {"main", "dev", "feature", "feat/x"} :
         push_in.upstream = r \o "/" \o b =>
           /\ push_out.remote = r
           /\ push_out.refspec = "refs/heads/" \o b \o ":refs/heads/" \o b

C21_Witness ==
  /\ push_pc = "done"
  /\ push_in.upstream = "origin/feat/x"
  /\ push_out.remote = "origin"
  /\ push_out.refspec = "refs/heads/feat/x:refs/heads/feat/x"
  /\ push_out.result = "ok"

\* C22: when user.name or user.email is not set, the fallback identity
\* "Watchers" takes its place and the commit is still created.
C22_UnsetIdentityFallsBack ==
  ( /\ cc_done
    /\ cc_in.unstageable = {}
    /\ cc_in.user_name = "unset" \/ cc_in.user_email = "unset" )
  => /\ cc_out.result = "ok"
     /\ cc_out.made
     /\ cc_in.user_name = "unset" => cc_out.name = "Watchers"
     /\ cc_in.user_email = "unset" => cc_out.email = "Watchers"

\* C23: the failure to stage one path does not abort the rest: the commit
\* is still created and has every other path as it is in the work tree.
C23_StagingFailureSkipsPath ==
  ( /\ cc_done
    /\ cc_in.user_name = "utf8" /\ cc_in.user_email = "utf8"
    /\ \E p \in cc_in.unstageable :
         cc_in.workdir[p] # Absent /\ cc_in.workdir[p] # cc_in.index[p] )
  => /\ cc_out.result = "ok"
     /\ cc_out.made
     /\ \A q \in CcPaths \ cc_in.unstageable : cc_out.tree[q] = cc_in.workdir[q]

\* C25: a firing that commits in the parent repository has before that
\* created a commit inside every submodule whose work tree had changes when
\* the firing began.
C25_SubmodulesCommittedFirst ==
  \A s \in Subs : \A i \in DOMAIN fired :
    ( /\ sub_dirty[s]
      /\ i > sub_since[s]
      /\ ~fired[i].running
      /\ fired[i].commit # 0 )
    => sub_commits[s] >= 1

\* C26: the credential offered follows the types the server accepts: an SSH
\* key only if SSH keys are accepted, otherwise user name and password from
\* the credential helper if those are accepted, otherwise the default
\* credential; no method is tried whose type the server does not accept.
C26_CredentialChain ==
  push_out.cred \notin {"none", "panic"} =>
    /\ push_out.cred \in push_in.allowed
    /\ push_out.cred =
         (IF "SSH_KEY" \in push_in.allowed THEN "SSH_KEY"
          ELSE IF "USER_PASS_PLAINTEXT" \in push_in.allowed THEN "USER_PASS_PLAINTEXT"
          ELSE "DEFAULT")

\* C27: push_commits returns Err only for an overall failure (no branch, no
\* remote, credentials not accepted, transfer failed); a ref that the
\* remote rejects is logged with its name and status message and the push
\* still returns Ok.
C27_RejectedRefIsLogged ==
  LET early == push_in.branch = "HEAD" \/ push_out.remote \notin push_in.remotes
      overall == ~push_in.transport_ok \/ (push_in.auth /\ "SSH_KEY" \notin push_in.allowed)
  IN (push_pc = "done" /\ push_out.result # "panic") =>
       /\ push_out.result = "err" <=> (early \/ overall)
       /\ (~early /\ ~overall /\ push_in.rejected # "") =>
            /\ push_out.result = "ok"
            /\ \E b \in {"main", "dev", "feature", "feat/x"} :
                 /\ push_out.refspec = "refs/heads/" \o b \o ":refs/heads/" \o b
                 /\ push_out.log = <<"Failed to push ref: refs/heads/" \o b
                                       \o ". Status: " \o push_in.rejected>>
       /\ push_in.rejected = "" => push_out.log = <<>>

C27_Witness ==
  /\ push_pc = "done"
  /\ push_in.rejected = "non-fast-forward"
  /\ push_out.result = "ok"
  /\ push_out.log = <<"Failed to push ref: refs/heads/main. Status: non-fast-forward">>

\* C28: the source side of the refspec is the current local branch, whatever
\* the upstream is called.
C28_RefspecSourceIsLocalBranch ==
  push_out.refspec # "" =>
    SubSeq(push_out.refspec, 1, Len("refs/heads/" \o push_in.branch \o ":"))
      = "refs/heads/" \o push_in.branch \o ":"

InCallback(t) == tpc[t] \in {"he_open", "he_commit", "he_push"}

\* C31: a callback invocation in progress is left only by its own last step
\* (no step of on_event or drop moves a timer out of the callback), and at
\* the step with which on_event or drop returns no timer thread is inside
\* the callback.
C31_ReturnsOnlyWhenNoCallbackRuns ==
  [][ /\ \A t \in Timers :
           (InCallback(t) /\ ~InCallback(t)') =>
             (tpc'[t] = "done" /\ mainpc' = mainpc /\ cancelled' = cancelled)
      /\ (mainpc \in {"cancel", "spawn"} /\ mainpc' \in {"idle", "dropped"}) =>
           \A t \in Timers : ~InCallback(t)' ]_vars

\* on_event number 2 has returned, and timer 1 ran the callback while that
\* call was under way (it delivered the payload stored by the call)
C31_Witness ==
  /\ mainpc = "idle"
  /\ calls = 2
  /\ \E i \in DOMAIN fired :
       fired[i].timer = 1 /\ fired[i].payload = 2 /\ ~fired[i].running

\* C32: once drop has returned, no callback invocation begins any more.
C32_NoCallbackAfterDrop ==
  [][mainpc = "dropped" => Len(fired') = Len(fired)]_vars

\* drop has returned while the in-flight timer had already timed out and had
\* not yet re-acquired its mutex
C32_Witness ==
  /\ mainpc = "dropped"
  /\ \E t \in Timers : tpc[t] = "woken" /\ timed_out[t] /\ cancelled[t]

\* C33: a pending payload is never abandoned: when every on_event call has
\* returned, the debouncer was not dropped and every timer thread has ended
\* without a panic, no payload is left in pending_context (a timer whose wait
\* returned early without a cancellation still delivered it).
C33_PayloadNeverAbandoned ==
  (Quiescent /\ ~poisoned) => pending_context = 0

\* the paths listed in the message of a commit
MessagePaths(c) == c.message.deleted \cup c.message.modified \cup c.message.added

\* the tree of the commit's parent; no parent: the empty tree
ParentTree(c) == IF c.base = 0 THEN EmptyTree ELSE commits[c.base].tree

\* the paths that differ between the commit's tree and its parent's tree
CommittedChange(c) == {p \in Paths : c.tree[p] # ParentTree(c)[p]}

\* C34: the paths listed in the message of a commit created by handle_event
\* are exactly the paths that differ between that commit's tree and its
\* parent's tree, also when the working tree changes between the status
\* computation and the staging step of the firing.
C34_MessageDescribesCommit ==
  \A i \in DOMAIN commits :
    commits[i].by = "watchers" => MessagePaths(commits[i]) = CommittedChange(commits[i])

\* C35: every entry of a non-empty status set is listed in exactly one
\* category of the commit message: the counts of the three categories add up
\* to the number of entries, and the summary line (the text before the first
\* line break) is not empty, whatever flag the entries carry.
C35_EveryEntryInOneCategory ==
  (msg_done /\ msg_statuses # <<>>) =>
    /\ \A j \in DOMAIN msg_statuses :
         Cardinality({i \in 1..3 :
           \E k \in DOMAIN types(msg_statuses)[i] :
             types(msg_statuses)[i][k] = msg_statuses[j]}) = 1
    /\ Len(types(msg_statuses)[1]) + Len(types(msg_statuses)[2])
         + Len(types(msg_statuses)[3]) = Len(msg_statuses)
    /\ msg_text # ""
    /\ SubSeq(msg_text, 1, 1) # "\n"

\* C36: once a firing has created a commit and no file of the watched
\* directory changes afterwards, every later firing finds an empty status set
\* and creates no commit: handle_event creates at most one commit after the
\* last change.
C36_Quiesces ==
  /\ \A i, j \in DOMAIN fired :
       (i < j /\ fired[i].commit # 0 /\ fired[j].read) =>
         (fired[j].changed = {} /\ fired[j].commit = 0)
  /\ Cardinality({i \in DOMAIN commits : commits[i].by = "watchers"}) <= 1

\* a firing created a commit, a later firing read the status, and every call
\* has returned and every timer thread has ended
C36_Witness ==
  /\ Quiescent
  /\ \E i, j \in DOMAIN fired :
       /\ i < j
       /\ fired[i].commit # 0
       /\ fired[j].read
       /\ ~fired[j].running

====
